---- MODULE Spec2Model ----
(***************************************************************************)
(* Graph colouring search of ML-CNP.                                       *)
(*                                                                         *)
(*   graph.rs          VecVecGraph: new, add_edge, neighbors, edges        *)
(*   algo/heuristic.rs HeuristicColoring: create, order_colors,            *)
(*                     forward_check, backtrack, search, color             *)
(*   algo/naive.rs     NaiveColoring: create, search, color                *)
(*   algo.rs           NaiveColoring with per-node available sets          *)
(*                                                                         *)
(* The recursion of HeuristicColoring::search is unfolded into an explicit *)
(* stack of frames; one action per statement group of the method.  Hash    *)
(* set iteration order is not fixed by the code, so every place that       *)
(* iterates an IntSet / HashSet picks the order nondeterministically.      *)
(***************************************************************************)
EXTENDS Integers, Sequences, FiniteSets, TLC

\* ------------------------------------------------------------------ bounds
MaxNodes == 3
MaxEdges == 3
MaxColors == 2
AvailNodes == 4
AvailColors == 2
DeepNodes == 4
DeepColors == 2
MaxParallel == 2
ParallelNodes == 3
MismatchNodes == 3
MismatchEdges == 2
MismatchColors == 2

\* ------------------------------------------------------- program constants
\* Option::None of colors[node]
None == -1
\* node count of tests/easy.txt (the 5-cycle of the tests)
EasySize == 5

VARIABLES
    pc,             \* position of the caller: "build", "created", "search", "avail", "done"
    size,           \* VecVecGraph.size
    edges,          \* VecVecGraph.edges : node -> sequence of neighbours
    calls,          \* the add_edge calls made on the graph under construction,
                    \* in order; forgotten once the graph is handed over
    algo,           \* which implementation was run
    k,              \* color_num given to create
    color_num,      \* color_num given to color
    colors,         \* colors : node -> colour or None
    domains,        \* HeuristicColoring.domains / NaiveColoring.available
    unused_colors,  \* the IntSet owned by color() and lent to search
    unused_nodes,   \* the Vec owned by color() and lent to search
    stack,          \* activation records of search / color_on, innermost last
    ret,            \* value returned by the search call that just ended
    result          \* value returned by color()

vars == <<pc, size, edges, calls, algo, k, color_num, colors, domains,
          unused_colors, unused_nodes, stack, ret, result>>

graphVars == <<size, edges>>
searchVars == <<colors, domains, unused_colors, unused_nodes, stack, ret>>

\* ---------------------------------------------------------------- helpers
Nodes == 0 .. (size - 1)

Range(s) == {s[i] : i \in 1 .. Len(s)}

Front(s) == SubSeq(s, 1, Len(s) - 1)

Last(s) == s[Len(s)]

\* number of positions of s holding x
Occurrences(s, x) == Cardinality({i \in 1 .. Len(s) : s[i] = x})

EmptyMap == [x \in {} |-> {}]

RECURSIVE Perms(_)
\* every order in which a hash set may hand out its elements
Perms(S) ==
    IF S = {} THEN {<<>>}
    ELSE UNION {{<<x>> \o p : p \in Perms(S \ {x})} : x \in S}

\* insert x behind every element whose key is not larger (keeps equal keys
\* in arrival order)
InsertStable(s, x, key) ==
    LET later == {i \in 1 .. Len(s) : key[s[i]] > key[x]}
        pos == IF later = {} THEN Len(s) + 1
               ELSE CHOOSE i \in later : \A j \in later : i <= j
    IN  SubSeq(s, 1, pos - 1) \o <<x>> \o SubSeq(s, pos, Len(s))

RECURSIVE StableSort(_, _)
\* slice::sort_by_key : stable, ascending by key
StableSort(s, key) ==
    IF s = <<>> THEN <<>>
    ELSE InsertStable(StableSort(Front(s), key), Last(s), key)

\* ------------------------------------------------------------------ graph
\* Graph::neighbors
neighbors(node) == edges[node]

\* Graph::edges : every (from, to) of every neighbour list, list by list
RECURSIVE EdgesFrom(_)
EdgesFrom(from) ==
    IF from >= size THEN <<>>
    ELSE [i \in 1 .. Len(edges[from]) |-> <<from, edges[from][i]>>]
         \o EdgesFrom(from + 1)

Edges == EdgesFrom(0)

\* add_edge that forgets the second push
AddEdge_oneway(e, from, to) == [e EXCEPT ![from] = Append(@, to)]

\* the state VecVecGraph::add_edge leaves
AddEdge(e, from, to) ==
    LET e1 == [e EXCEPT ![from] = Append(@, to)]
    IN  [e1 EXCEPT ![to] = Append(@, from)]

\* the colour counts test_heuristic and test_naive give to create
EasyColors == {2, 3}

\* the edge lines of tests/easy.txt
EasyEdges == <<<<0, 1>>, <<1, 2>>, <<2, 3>>, <<3, 4>>, <<4, 0>>>>

RECURSIVE AddAll(_, _)
AddAll(e, lines) ==
    IF lines = <<>> THEN e
    ELSE AddAll(AddEdge(e, lines[1][1], lines[1][2]), Tail(lines))

\* VecVecGraph::new
Init ==
    /\ pc = "build"
    /\ size \in 0 .. MaxNodes
    /\ edges = [n \in 0 .. (size - 1) |-> <<>>]
    /\ calls = <<>>
    /\ algo = "none"
    /\ k = 0
    /\ color_num = 0
    /\ colors = <<>>
    /\ domains = <<>>
    /\ unused_colors = {}
    /\ unused_nodes = <<>>
    /\ stack = <<>>
    /\ ret = "none"
    /\ result = [is_some |-> FALSE, value |-> <<>>]

add_edge(from, to) ==
    /\ pc = "build"
    /\ Len(calls) < MaxEdges
    /\ from \in Nodes
    /\ to \in Nodes
    /\ edges' = AddEdge(edges, from, to)
    /\ calls' = Append(calls, <<from, to>>)
    /\ UNCHANGED <<pc, size, algo, k, color_num, result>>
    /\ UNCHANGED searchVars

\* build_graph_from_str on tests/easy.txt: a new graph of EasySize nodes and
\* one add_edge per line
build_graph_from_str ==
    /\ pc = "build"
    /\ calls = <<>>
    /\ size' = EasySize
    /\ edges' = AddAll([n \in 0 .. (EasySize - 1) |-> <<>>], EasyEdges)
    /\ calls' = EasyEdges
    /\ UNCHANGED <<pc, algo, k, color_num, result>>
    /\ UNCHANGED searchVars


\* ------------------------------------------------------ HeuristicColoring
\* HeuristicColoring::colored
colored(cols, node) == cols[node] # None

\* the key of the sort in order_colors: how many entries of the neighbour
\* list are uncoloured and still have the colour in their domain
Impact(node, c) ==
    Cardinality({i \in 1 .. Len(neighbors(node)) :
                    /\ ~colored(colors, neighbors(node)[i])
                    /\ c \in domains[neighbors(node)[i]]})

\* order_colors that forgets the representative unused colour
order_colors_drop(node) ==
    LET key == [c \in domains[node] \cup unused_colors |-> Impact(node, c)]
    IN  {StableSort(p, key) : p \in Perms(domains[node] \ unused_colors)}

\* HeuristicColoring::order_colors : the vectors it can return
order_colors(node) ==
    LET key == [c \in domains[node] \cup unused_colors |-> Impact(node, c)]
    IN  IF unused_colors = {}
        THEN {StableSort(p, key) : p \in Perms(domains[node])}
        ELSE UNION {{StableSort(p \o <<unused>>, key) :
                        p \in Perms(domains[node] \ unused_colors)} :
                    unused \in unused_colors}

\* backtrack that restores nothing
backtrack_none(doms, removals) == doms

\* HeuristicColoring::backtrack
backtrack(doms, removals) ==
    [n \in DOMAIN doms |->
        IF n \in DOMAIN removals THEN doms[n] \cup removals[n] ELSE doms[n]]

\* removals.entry(neighbor).or_insert_with(HashSet::new).insert(color)
Record(removals, neighbor, color) ==
    [n \in DOMAIN removals \cup {neighbor} |->
        IF n = neighbor
        THEN (IF n \in DOMAIN removals THEN removals[n] ELSE {}) \cup {color}
        ELSE removals[n]]

RECURSIVE forward_check_from(_, _, _, _, _)
\* the loop of forward_check from position i of the neighbour list
forward_check_from(i, node, color, doms, removals) ==
    IF i > Len(neighbors(node))
    THEN [avail |-> TRUE, domains |-> doms, removals |-> removals]
    ELSE LET neighbor == neighbors(node)[i]
         IN  IF ~colored(colors, neighbor) /\ color \in doms[neighbor]
             THEN LET r == Record(removals, neighbor, color)
                      d == [doms EXCEPT ![neighbor] = @ \ {color}]
                  IN  IF d[neighbor] = {}
                      THEN [avail |-> FALSE, domains |-> backtrack(d, r),
                            removals |-> EmptyMap]
                      ELSE forward_check_from(i + 1, node, color, d, r)
             ELSE forward_check_from(i + 1, node, color, doms, removals)

\* forward_check that removes nothing
forward_check_none(node, color) ==
    [avail |-> TRUE, domains |-> domains, removals |-> EmptyMap]

\* HeuristicColoring::forward_check
forward_check(node, color) ==
    forward_check_from(1, node, color, domains, EmptyMap)

\* what a candidate colour finds when its try begins
Snapshot ==
    [colors |-> colors, domains |-> domains, unused_colors |-> unused_colors,
     pool |-> Range(unused_nodes)]

\* a fresh activation of search(node, ..)
Frame(node) ==
    [node |-> node, pc |-> "entry", ordered |-> <<>>, color |-> None,
     removals |-> EmptyMap, removed |-> FALSE, next |-> None,
     tried |-> FALSE, pre |-> Snapshot]

Top == stack[Len(stack)]

SetTop(f) == [stack EXCEPT ![Len(stack)] = f]

\* the graph is the one of tests/easy.txt
IsEasyGraph ==
    /\ size = EasySize
    /\ edges = AddAll([n \in 0 .. (EasySize - 1) |-> <<>>], EasyEdges)

\* the colour counts create is called with: any count up to MaxColors, and
\* the counts of the tests on their graph
ColorCounts == (0 .. MaxColors) \cup (IF IsEasyGraph THEN EasyColors ELSE {})

\* HeuristicColoring::create
create(cnum) ==
    /\ pc = "build"
    /\ pc' = "created"
    /\ algo' = "heuristic"
    /\ k' = cnum
    /\ colors' = [n \in Nodes |-> None]
    /\ domains' = [n \in Nodes |-> 0 .. (cnum - 1)]
    /\ calls' = <<>>
    /\ UNCHANGED <<color_num, unused_colors, unused_nodes, stack, ret, result>>
    /\ UNCHANGED graphVars

\* HeuristicColoring::color, up to the call of search
color(cnum) ==
    /\ pc = "created"
    /\ pc' = "search"
    /\ color_num' = cnum
    /\ unused_colors' = 0 .. (cnum - 1)
    /\ unused_nodes' = [i \in 1 .. size |-> i - 1]
    /\ stack' = <<[Frame(0) EXCEPT !.pre =
                     [colors |-> colors, domains |-> domains,
                      unused_colors |-> 0 .. (cnum - 1), pool |-> Nodes]]>>
    /\ UNCHANGED <<calls, algo, k, colors, domains, ret, result>>
    /\ UNCHANGED graphVars

InSearch == pc = "search" /\ stack # <<>>

\* search: the pool is empty, return true
search_pool_empty ==
    /\ InSearch
    /\ Top.pc = "entry"
    /\ unused_nodes = <<>>
    /\ stack' = Front(stack)
    /\ ret' = "true"
    /\ UNCHANGED <<pc, calls, algo, k, color_num, colors, domains,
                   unused_colors, unused_nodes, result>>
    /\ UNCHANGED graphVars

\* search: let ordered_colors = self.order_colors(node, unused_colors)
search_order ==
    /\ InSearch
    /\ Top.pc = "entry"
    /\ unused_nodes # <<>>
    /\ \E ordered \in order_colors(Top.node) :
          stack' = SetTop([Top EXCEPT !.pc = "loop", !.ordered = ordered])
    /\ UNCHANGED <<pc, calls, algo, k, color_num, colors, domains,
                   unused_colors, unused_nodes, ret, result>>
    /\ UNCHANGED graphVars

AtLoop == InSearch /\ Top.pc = "loop" /\ Top.ordered # <<>>

\* search: some neighbour has the same colour, continue
search_skip ==
    /\ AtLoop
    /\ \E i \in 1 .. Len(neighbors(Top.node)) :
          colors[neighbors(Top.node)[i]] = Head(Top.ordered)
    /\ stack' = SetTop([Top EXCEPT !.ordered = Tail(@), !.tried = TRUE,
                                   !.color = Head(Top.ordered),
                                   !.pre = Snapshot])
    /\ UNCHANGED <<pc, calls, algo, k, color_num, colors, domains,
                   unused_colors, unused_nodes, ret, result>>
    /\ UNCHANGED graphVars

\* search: forward_check reports false, continue
search_check_failed ==
    /\ AtLoop
    /\ \A i \in 1 .. Len(neighbors(Top.node)) :
          colors[neighbors(Top.node)[i]] # Head(Top.ordered)
    /\ LET fc == forward_check(Top.node, Head(Top.ordered))
       IN  /\ ~fc.avail
           /\ domains' = fc.domains
    /\ stack' = SetTop([Top EXCEPT !.ordered = Tail(@), !.tried = TRUE,
                                   !.color = Head(Top.ordered),
                                   !.pre = Snapshot])
    /\ UNCHANGED <<pc, calls, algo, k, color_num, colors, unused_colors,
                   unused_nodes, ret, result>>
    /\ UNCHANGED graphVars

\* search: forward_check reports true
search_check_passed ==
    /\ AtLoop
    /\ \A i \in 1 .. Len(neighbors(Top.node)) :
          colors[neighbors(Top.node)[i]] # Head(Top.ordered)
    /\ LET fc == forward_check(Top.node, Head(Top.ordered))
       IN  /\ fc.avail
           /\ domains' = fc.domains
           /\ stack' = SetTop([Top EXCEPT !.pc = "assign", !.tried = TRUE,
                                          !.color = Head(Top.ordered),
                                          !.removals = fc.removals,
                                          !.pre = Snapshot])
    /\ UNCHANGED <<pc, calls, algo, k, color_num, colors, unused_colors,
                   unused_nodes, ret, result>>
    /\ UNCHANGED graphVars

\* the sort with the sign of the key dropped: widest domain last
SortPool_widest(pool, doms) ==
    StableSort(pool, [n \in DOMAIN doms |-> Cardinality(doms[n])])

\* unused_nodes.sort_by_key(|node| -(self.domains[*node].len() as isize))
SortPool(pool, doms) ==
    StableSort(pool, [n \in DOMAIN doms |-> 0 - Cardinality(doms[n])])

\* search: take the colour out of unused_colors, assign it, sort the pool,
\* pop the next node and call search on it
search_assign ==
    /\ InSearch
    /\ Top.pc = "assign"
    /\ unused_colors' = unused_colors \ {Top.color}
    /\ colors' = [colors EXCEPT ![Top.node] = Top.color]
    /\ LET sorted == SortPool(unused_nodes, domains)
       IN  /\ unused_nodes' = Front(sorted)
           /\ stack' = Append(SetTop([Top EXCEPT
                                        !.pc = "call",
                                        !.removed = Top.color \in unused_colors,
                                        !.next = Last(sorted)]),
                              [Frame(Last(sorted)) EXCEPT !.pre =
                                 [colors |-> colors', domains |-> domains,
                                  unused_colors |-> unused_colors',
                                  pool |-> Range(Front(sorted))]])
    /\ UNCHANGED <<pc, calls, algo, k, color_num, domains, ret, result>>
    /\ UNCHANGED graphVars

\* search: the recursive call returned true, return true
search_found ==
    /\ InSearch
    /\ Top.pc = "call"
    /\ ret = "true"
    /\ stack' = Front(stack)
    /\ UNCHANGED <<pc, calls, algo, k, color_num, colors, domains,
                   unused_colors, unused_nodes, ret, result>>
    /\ UNCHANGED graphVars

\* search: the recursive call returned false; unassign, give the colour back
\* to unused_colors if this try took it, push next back
search_unassign ==
    /\ InSearch
    /\ Top.pc = "call"
    /\ ret = "false"
    /\ colors' = [colors EXCEPT ![Top.node] = None]
    /\ unused_colors' = IF Top.removed THEN unused_colors \cup {Top.color}
                        ELSE unused_colors
    /\ unused_nodes' = Append(unused_nodes, Top.next)
    /\ stack' = SetTop([Top EXCEPT !.pc = "restore"])
    /\ ret' = "none"
    /\ UNCHANGED <<pc, calls, algo, k, color_num, domains, result>>
    /\ UNCHANGED graphVars

\* search: self.backtrack(removals), then the next candidate
search_restore ==
    /\ InSearch
    /\ Top.pc = "restore"
    /\ domains' = backtrack(domains, Top.removals)
    /\ stack' = SetTop([Top EXCEPT !.pc = "loop", !.ordered = Tail(@)])
    /\ UNCHANGED <<pc, calls, algo, k, color_num, colors, unused_colors,
                   unused_nodes, ret, result>>
    /\ UNCHANGED graphVars

\* search: every candidate was tried, return false
search_exhausted ==
    /\ InSearch
    /\ Top.pc = "loop"
    /\ Top.ordered = <<>>
    /\ stack' = Front(stack)
    /\ ret' = "false"
    /\ UNCHANGED <<pc, calls, algo, k, color_num, colors, domains,
                   unused_colors, unused_nodes, result>>
    /\ UNCHANGED graphVars

\* self.colors.clone().into_iter().collect() : Some iff no entry is None
Collect(cols) ==
    IF \A n \in DOMAIN cols : cols[n] # None
    THEN [is_some |-> TRUE, value |-> cols]
    ELSE [is_some |-> FALSE, value |-> <<>>]

\* HeuristicColoring::color, after search came back
color_return ==
    /\ pc = "search"
    /\ stack = <<>>
    /\ ret # "none"
    /\ pc' = "done"
    /\ result' = Collect(colors)
    /\ UNCHANGED <<calls, algo, k, color_num>>
    /\ UNCHANGED searchVars
    /\ UNCHANGED graphVars

\* ------------------------------------------------- NaiveColoring (naive.rs)
RECURSIVE NaiveSearch(_, _, _)
RECURSIVE NaiveLoop(_, _, _, _)
\* NaiveColoring::search : [ok, colors] when the call returns
NaiveSearch(cols, node, cnum) ==
    IF node = size THEN [ok |-> TRUE, colors |-> cols]
    ELSE NaiveLoop(cols, node, 0, cnum)

\* the for loop of NaiveColoring::search from candidate c on
NaiveLoop(cols, node, c, cnum) ==
    IF c >= cnum THEN [ok |-> FALSE, colors |-> cols]
    ELSE IF \E i \in 1 .. Len(neighbors(node)) : cols[neighbors(node)[i]] = c
         THEN NaiveLoop(cols, node, c + 1, cnum)
         ELSE LET r == NaiveSearch([cols EXCEPT ![node] = c], node + 1, cnum)
              IN  IF r.ok THEN r
                  ELSE NaiveLoop([r.colors EXCEPT ![node] = None], node,
                                 c + 1, cnum)

\* NaiveColoring::create followed by NaiveColoring::color
NaiveColor(cnum) == Collect(NaiveSearch([n \in Nodes |-> None], 0, cnum).colors)

\* create(cnum, graph) and color(arg) of naive.rs; color never reads its
\* argument (_color_num)
naive_color(cnum, arg) ==
    /\ pc = "build"
    /\ pc' = "done"
    /\ algo' = "naive"
    /\ k' = cnum
    /\ color_num' = color_num
    /\ LET r == NaiveSearch([n \in Nodes |-> None], 0, cnum)
       IN  /\ colors' = r.colors
           /\ ret' = IF r.ok THEN "true" ELSE "false"
           /\ result' = Collect(r.colors)
    /\ calls' = <<>>
    /\ UNCHANGED <<domains, unused_colors, unused_nodes, stack>>
    /\ UNCHANGED graphVars

\* ----------------------------------------- NaiveColoring of algo.rs
RECURSIVE PointPairs(_, _, _)
\* the (i, j) visited by the two loops of from_points, from (i, j) on
PointPairs(i, j, n) ==
    IF i >= n THEN <<>>
    ELSE IF j >= i THEN PointPairs(i + 1, 0, n)
         ELSE <<<<i, j>>>> \o PointPairs(i, j + 1, n)

InClose(close, p) == p \in close

\* VecVecGraph::from_points : close holds the pairs of points whose distance
\* equals dist within EPS
from_points(n, close) ==
    /\ pc = "build"
    /\ calls = <<>>
    /\ LET added == SelectSeq(PointPairs(0, 0, n), LAMBDA p : InClose(close, p))
       IN  /\ edges' = AddAll([m \in 0 .. (n - 1) |-> <<>>], added)
           /\ calls' = added
    /\ size' = n
    /\ UNCHANGED <<pc, algo, k, color_num, result>>
    /\ UNCHANGED searchVars

\* a fresh activation of color_on(node, graph)
AvailFrame(node) ==
    [node |-> node, pc |-> "entry", todo |-> {}, color |-> None]

\* the available sets after colour c was removed from every neighbour of node
RemoveFromNeighbors(avail, node, c) ==
    [n \in DOMAIN avail |->
        IF n \in Range(neighbors(node)) THEN avail[n] \ {c} ELSE avail[n]]

\* the available sets after colour c was inserted for every neighbour of node
InsertForNeighbors(avail, node, c) ==
    [n \in DOMAIN avail |->
        IF n \in Range(neighbors(node)) THEN avail[n] \cup {c} ELSE avail[n]]

\* ColorAlgorithm::color of algo.rs: create, then the call color_on(0, graph)
avail_color(cnum) ==
    /\ pc = "build"
    /\ pc' = "avail"
    /\ algo' = "avail"
    /\ k' = cnum
    /\ color_num' = cnum
    /\ domains' = [n \in Nodes |-> 0 .. (cnum - 1)]
    /\ colors' = [n \in Nodes |-> None]
    /\ stack' = <<AvailFrame(0)>>
    /\ calls' = <<>>
    /\ UNCHANGED <<unused_colors, unused_nodes, ret, result>>
    /\ UNCHANGED graphVars

InColorOn == pc = "avail" /\ stack # <<>>

\* color_on: node == graph.size(), return true
color_on_end ==
    /\ InColorOn
    /\ Top.pc = "entry"
    /\ Top.node = size
    /\ stack' = Front(stack)
    /\ ret' = "true"
    /\ UNCHANGED <<pc, calls, algo, k, color_num, colors, domains,
                   unused_colors, unused_nodes, result>>
    /\ UNCHANGED graphVars

\* color_on: self.available[node].clone()
color_on_clone ==
    /\ InColorOn
    /\ Top.pc = "entry"
    /\ Top.node # size
    /\ stack' = SetTop([Top EXCEPT !.pc = "loop", !.todo = domains[Top.node]])
    /\ UNCHANGED <<pc, calls, algo, k, color_num, colors, domains,
                   unused_colors, unused_nodes, ret, result>>
    /\ UNCHANGED graphVars

\* color_on: the next colour of the clone; assign it, remove it from every
\* neighbour's available set, call color_on(node + 1)
color_on_try(c) ==
    /\ InColorOn
    /\ Top.pc = "loop"
    /\ c \in Top.todo
    /\ colors' = [colors EXCEPT ![Top.node] = c]
    /\ domains' = RemoveFromNeighbors(domains, Top.node, c)
    /\ stack' = Append(SetTop([Top EXCEPT !.pc = "call", !.color = c,
                                          !.todo = @ \ {c}]),
                       AvailFrame(Top.node + 1))
    /\ UNCHANGED <<pc, calls, algo, k, color_num, unused_colors, unused_nodes,
                   ret, result>>
    /\ UNCHANGED graphVars

\* color_on: the recursive call returned true, return true
color_on_found ==
    /\ InColorOn
    /\ Top.pc = "call"
    /\ ret = "true"
    /\ stack' = Front(stack)
    /\ UNCHANGED <<pc, calls, algo, k, color_num, colors, domains,
                   unused_colors, unused_nodes, ret, result>>
    /\ UNCHANGED graphVars

\* color_on: the recursive call returned false; insert the colour into every
\* neighbour's available set (colors[node] is left as it is)
color_on_undo ==
    /\ InColorOn
    /\ Top.pc = "call"
    /\ ret = "false"
    /\ domains' = InsertForNeighbors(domains, Top.node, Top.color)
    /\ stack' = SetTop([Top EXCEPT !.pc = "loop"])
    /\ ret' = "none"
    /\ UNCHANGED <<pc, calls, algo, k, color_num, colors, unused_colors,
                   unused_nodes, result>>
    /\ UNCHANGED graphVars

\* color_on: the clone is used up, return false
color_on_exhausted ==
    /\ InColorOn
    /\ Top.pc = "loop"
    /\ Top.todo = {}
    /\ stack' = Front(stack)
    /\ ret' = "false"
    /\ UNCHANGED <<pc, calls, algo, k, color_num, colors, domains,
                   unused_colors, unused_nodes, result>>
    /\ UNCHANGED graphVars

\* ColorAlgorithm::color of algo.rs: algo.colors.into_iter().collect()
avail_return ==
    /\ pc = "avail"
    /\ stack = <<>>
    /\ ret # "none"
    /\ pc' = "done"
    /\ result' = Collect(colors)
    /\ UNCHANGED <<calls, algo, k, color_num>>
    /\ UNCHANGED searchVars
    /\ UNCHANGED graphVars

Next ==
    \/ \E from, to \in Nodes : add_edge(from, to)
    \/ build_graph_from_str
    \/ \E cnum \in ColorCounts : create(cnum)
    \/ color(k)
    \/ search_pool_empty
    \/ search_order
    \/ search_skip
    \/ search_check_failed
    \/ search_check_passed
    \/ search_assign
    \/ search_found
    \/ search_unassign
    \/ search_restore
    \/ search_exhausted
    \/ color_return
    \/ \E cnum, arg \in ColorCounts : naive_color(cnum, arg)

Spec == Init /\ [][Next]_vars


\* the available-set search of algo.rs on graphs built by from_points
NextAvail ==
    \/ \E n \in 0 .. AvailNodes :
          \E close \in SUBSET {p \in (0 .. (n - 1)) \X (0 .. (n - 1)) : p[2] < p[1]} :
             from_points(n, close)
    \/ \E cnum \in 0 .. AvailColors : avail_color(cnum)
    \/ color_on_end
    \/ color_on_clone
    \/ \E c \in 0 .. AvailColors : color_on_try(c)
    \/ color_on_found
    \/ color_on_undo
    \/ color_on_exhausted
    \/ avail_return

SpecAvail == Init /\ [][NextAvail]_vars

\* the heuristic search on graphs of DeepNodes nodes with DeepColors colours
InitDeep ==
    /\ pc = "build"
    /\ size = DeepNodes
    /\ edges = [n \in 0 .. (size - 1) |-> <<>>]
    /\ calls = <<>>
    /\ algo = "none"
    /\ k = 0
    /\ color_num = 0
    /\ colors = <<>>
    /\ domains = <<>>
    /\ unused_colors = {}
    /\ unused_nodes = <<>>
    /\ stack = <<>>
    /\ ret = "none"
    /\ result = [is_some |-> FALSE, value |-> <<>>]

NextDeep ==
    \/ \E from, to \in Nodes : add_edge(from, to)
    \/ create(DeepColors)
    \/ color(DeepColors)
    \/ search_pool_empty
    \/ search_order
    \/ search_skip
    \/ search_check_failed
    \/ search_check_passed
    \/ search_assign
    \/ search_found
    \/ search_unassign
    \/ search_restore
    \/ search_exhausted
    \/ color_return

SpecDeep == InitDeep /\ [][NextDeep]_vars

\* a graph of seven nodes whose first ten edges are fixed and that gets up
\* to MaxParallel further edges: node count, colour count and the first
\* add_edge calls
ParallelSize == 7

ParallelColors == 3

ParallelBase ==
    <<<<0, 1>>, <<0, 5>>, <<0, 6>>, <<1, 2>>, <<1, 3>>,
      <<1, 4>>, <<2, 6>>, <<3, 5>>, <<4, 5>>, <<5, 6>>>>

\* VecVecGraph::new(ParallelSize)
InitParallel ==
    /\ pc = "build"
    /\ size = ParallelSize
    /\ edges = [n \in 0 .. (size - 1) |-> <<>>]
    /\ calls = <<>>
    /\ algo = "none"
    /\ k = 0
    /\ color_num = 0
    /\ colors = <<>>
    /\ domains = <<>>
    /\ unused_colors = {}
    /\ unused_nodes = <<>>
    /\ stack = <<>>
    /\ ret = "none"
    /\ result = [is_some |-> FALSE, value |-> <<>>]

\* one add_edge call per pair of ParallelBase
add_edge_each ==
    /\ pc = "build"
    /\ calls = <<>>
    /\ edges' = AddAll(edges, ParallelBase)
    /\ calls' = ParallelBase
    /\ UNCHANGED <<pc, size, algo, k, color_num, result>>
    /\ UNCHANGED searchVars

\* a further add_edge call between two of the first ParallelNodes nodes
add_edge_more(from, to) ==
    /\ pc = "build"
    /\ calls # <<>>
    /\ Len(calls) < Len(ParallelBase) + MaxParallel
    /\ edges' = AddEdge(edges, from, to)
    /\ calls' = Append(calls, <<from, to>>)
    /\ UNCHANGED <<pc, size, algo, k, color_num, result>>
    /\ UNCHANGED searchVars

NextParallel ==
    \/ add_edge_each
    \/ \E from, to \in 0 .. (ParallelNodes - 1) : add_edge_more(from, to)
    \/ create(ParallelColors)
    \/ color(ParallelColors)
    \/ search_pool_empty
    \/ search_order
    \/ search_skip
    \/ search_check_failed
    \/ search_check_passed
    \/ search_assign
    \/ search_found
    \/ search_unassign
    \/ search_restore
    \/ search_exhausted
    \/ color_return

SpecParallel == InitParallel /\ [][NextParallel]_vars

\* the heuristic search when color is given a count of its own
InitMismatch ==
    /\ pc = "build"
    /\ size \in 0 .. MismatchNodes
    /\ edges = [n \in 0 .. (size - 1) |-> <<>>]
    /\ calls = <<>>
    /\ algo = "none"
    /\ k = 0
    /\ color_num = 0
    /\ colors = <<>>
    /\ domains = <<>>
    /\ unused_colors = {}
    /\ unused_nodes = <<>>
    /\ stack = <<>>
    /\ ret = "none"
    /\ result = [is_some |-> FALSE, value |-> <<>>]

NextMismatch ==
    \/ \E from, to \in Nodes : Len(calls) < MismatchEdges /\ add_edge(from, to)
    \/ \E cnum \in 0 .. MismatchColors : create(cnum)
    \/ \E cnum \in 0 .. MismatchColors : color(cnum)
    \/ search_pool_empty
    \/ search_order
    \/ search_skip
    \/ search_check_failed
    \/ search_check_passed
    \/ search_assign
    \/ search_found
    \/ search_unassign
    \/ search_restore
    \/ search_exhausted
    \/ color_return

SpecMismatch == InitMismatch /\ [][NextMismatch]_vars

\* ============================================================== properties
Done(a) == pc = "done" /\ algo = a

\* no edge (a, b) reported by Graph::edges has the same colour at both ends
ProperOn(es, value) ==
    \A i \in 1 .. Len(es) : value[es[i][1]] # value[es[i][2]]

Proper(value) == ProperOn(Edges, value)

\* every node holds a colour
Complete(value) ==
    /\ DOMAIN value = Nodes
    /\ \A n \in Nodes : value[n] # None

\* the graph has a proper colouring with c colours
Colorable(c) ==
    LET es == Edges
    IN  \E f \in [Nodes -> 0 .. (c - 1)] : ProperOn(es, f)

\* the colours some node holds
Held == {colors[n] : n \in Nodes} \ {None}

Uncolored == {n \in Nodes : colors[n] = None}

AtEntry == pc = "search" /\ stack # <<>> /\ Top.pc = "entry"

AtReturn == pc = "search" /\ ret # "none"

\* C1: whenever HeuristicColoring::color or NaiveColoring::color (naive.rs)
\* returns Some(assignment), every node has a colour and no edge reported by
\* the graph joins two nodes of the same colour.
C1_Validity ==
    (Done("heuristic") \/ Done("naive")) /\ result.is_some
        => Complete(result.value) /\ Proper(result.value)

\* C2: a HeuristicColoring created and run with k colours returns Some
\* whenever the graph has a proper colouring with k colours (None only if it
\* has none); the 5-cycle gives None for k = 2 and Some for k = 3.
C2_Complete ==
    Done("heuristic") /\ k = color_num
        => /\ Colorable(k) => result.is_some
           /\ IsEasyGraph /\ k = 2 => ~result.is_some
           /\ IsEasyGraph /\ k = 3 => result.is_some

C2_Witness ==
    /\ Done("heuristic")
    /\ IsEasyGraph
    /\ k = 3
    /\ color_num = 3
    /\ result.is_some

\* C3: HeuristicColoring created and run with k returns Some if and only if
\* NaiveColoring of naive.rs created with k returns Some.
C3_Agree ==
    Done("heuristic") /\ k = color_num
        => (result.is_some <=> NaiveColor(k).is_some)

C5_Restored ==
    Done("heuristic") /\ ~result.is_some /\ ret = "false"
        => \A n \in Nodes : colors[n] = None /\ domains[n] = 0 .. (k - 1)

C5_Witness ==
    /\ Done("heuristic")
    /\ ~result.is_some
    /\ ret = "false"
    /\ k >= 2
    /\ size >= 3

\* C6: at every entry to and every return from the recursive search step,
\* unused_colors is exactly the set of colours in [0, k) that no node holds.
C6_Unused ==
    (AtEntry \/ AtReturn) /\ k = color_num
        => unused_colors = (0 .. (k - 1)) \ Held

\* C7: at every entry to the recursive search step the pool holds exactly
\* the nodes that have no colour; no coloured node is in the pool.
C7_Pool ==
    AtEntry => Range(unused_nodes) = Uncolored

RECURSIVE OtherEnds(_, _)
\* the other endpoints of the calls that touch node a, in call order
OtherEnds(cs, a) ==
    IF cs = <<>> THEN <<>>
    ELSE (IF cs[1][1] = a THEN <<cs[1][2]>> ELSE <<>>)
         \o (IF cs[1][2] = a THEN <<cs[1][1]>> ELSE <<>>)
         \o OtherEnds(Tail(cs), a)

\* C8: after any sequence of add_edge calls, neighbors(a) contains b as often
\* as neighbors(b) contains a, each neighbour list holds the other endpoints
\* in call order, every neighbour index is below size(), and edges() reports
\* (a, b) as often as (b, a).
C8_Adjacency ==
    pc = "build" =>
        LET es == Edges
        IN  /\ \A a, b \in Nodes :
                  /\ Occurrences(neighbors(a), b) = Occurrences(neighbors(b), a)
                  /\ Occurrences(es, <<a, b>>) = Occurrences(es, <<b, a>>)
            /\ \A a \in Nodes :
                  /\ Range(neighbors(a)) \subseteq Nodes
                  /\ neighbors(a) = OtherEnds(calls, a)

C8_Witness ==
    /\ pc = "build"
    /\ Len(calls) >= 2
    /\ calls[1] = calls[2]
    /\ calls[1][1] # calls[1][2]

\* the nodes color_on has assigned on the current branch
OnBranch == {stack[i].node : i \in {j \in 1 .. Len(stack) : stack[j].pc = "call"}}

\* C9: color(num, graph) of algo.rs returns Some(colors) only if the search
\* succeeded and colors is a proper colouring, None otherwise; while the
\* search runs no colour held by a node of the current branch is available
\* to an unassigned neighbour of that node.
C9_AvailSound ==
    /\ Done("avail") => /\ result.is_some <=> ret = "true"
                        /\ result.is_some => Proper(result.value)
    /\ pc = "avail" =>
          \A i \in 1 .. Len(stack) :
             stack[i].pc = "call" =>
                \A m \in Range(neighbors(stack[i].node)) \ OnBranch :
                   stack[i].color \notin domains[m]

\* C10: a candidate colour that does not lead to success leaves colors, every
\* domain, unused_colors and the membership of the pool as they were when
\* the try began.
C10_TryRestores ==
    pc = "search" /\ stack # <<>> /\ Top.pc = "loop" /\ Top.tried
        => Snapshot = Top.pre

\* the nodes of the activations of search that have assigned a colour and
\* are waiting for their recursive call
Branched(i) == {j \in 1 .. i : stack[j].pc = "call"}

\* C11: whenever search reports success every node holds a colour, no node
\* was branched on twice along the branch, and HeuristicColoring::color
\* returns Some exactly when the search reported success.
C11_SuccessFull ==
    /\ pc = "search" /\ ret = "true" => Uncolored = {}
    /\ pc = "search" =>
          \A i, j \in Branched(Len(stack)) :
             stack[i].node = stack[j].node => i = j
    /\ Done("heuristic") => (result.is_some <=> ret = "true")

\* the activation that made the call of the innermost activation
Caller == stack[Len(stack) - 1]

\* the innermost activation was just called by an activation of search
JustCalled == AtEntry /\ Len(stack) >= 2

\* C12: after each successful assignment the node chosen to branch on next
\* is a member of the pool, and no member of the pool has a smaller domain.
C12_Smallest ==
    JustCalled =>
        /\ Top.node = Caller.next
        /\ Top.node \in Caller.pre.pool
        /\ \A m \in Caller.pre.pool :
              Cardinality(domains[Top.node]) <= Cardinality(domains[m])

C12_Witness ==
    /\ JustCalled
    /\ \E m \in Range(unused_nodes) :
          Cardinality(domains[Top.node]) < Cardinality(domains[m])
    /\ \E m \in Range(unused_nodes) :
          m # Top.node /\ Cardinality(domains[Top.node]) = Cardinality(domains[m])

\* the neighbours of node that have no colour and whose domain holds c
Constrained(node, c) ==
    {m \in Range(neighbors(node)) : colors[m] = None /\ c \in domains[m]}

\* order_colors has just returned to the innermost activation of search
Ordered == InSearch /\ Top.pc = "loop" /\ ~Top.tried

\* C13: order_colors returns the candidates in non-decreasing order of
\* impact, the impact of a colour being the number of not-yet-coloured
\* neighbours of the node whose domain contains it; the candidates are the
\* domain colours of the node that are not globally unused, each once, plus
\* at most one globally-unused colour.
C13_Ordered ==
    Ordered =>
        LET o == Top.ordered
        IN  /\ \A i, j \in 1 .. Len(o) :
                  i < j => Cardinality(Constrained(Top.node, o[i]))
                              <= Cardinality(Constrained(Top.node, o[j]))
            /\ Range(o) \ unused_colors = domains[Top.node] \ unused_colors
            /\ Cardinality(Range(o) \cap unused_colors) <= 1
            /\ Cardinality(Range(o)) = Len(o)

\* the innermost activation of search is about to assign its colour
Assigning == InSearch /\ Top.pc = "assign"

\* C14: for a HeuristicColoring created with k colours and any color_num
\* given to color, every colour assigned to a node is in the domain the
\* node had when the colour was taken up for the assignment, and every
\* colour of a returned assignment lies in [0, k).
C14_InDomain ==
    /\ Assigning => Top.color \in Top.pre.domains[Top.node]
    /\ Done("heuristic") /\ result.is_some
          => \A n \in Nodes : result.value[n] \in 0 .. (k - 1)

====
